---- MODULE Spec2Model ----
(***************************************************************************)
(* Model of sepacbi/entity.py: the Address and IdHolder entities, their    *)
(* validation (perform_checks) and their serialisation into an element     *)
(* tree (emit_tag).                                                        *)
(*                                                                         *)
(* An optional attribute is a sequence: <<>> when the attribute is absent  *)
(* (hasattr is false, or the value is None for Address fields and pstl),   *)
(* <<v>> when it holds v.  Texts are strings, Len gives their length.      *)
(* An element is a record [tag, text, children] with ordered children.     *)
(***************************************************************************)
EXTENDS Integers, Sequences, FiniteSets, TLC

VARIABLES self, adr, checked, snapshot, last

vars == <<self, adr, checked, snapshot, last>>

(***************************************************************************)
(* Bounds of the enumeration of inputs.                                    *)
(***************************************************************************)
\* the longest address (number of lines) that is enumerated
MaxLines == 3
\* how many attributes of one instance may hold an out-of-range text
MaxBad == 1

(***************************************************************************)
(* Length limits of the validation code.                                   *)
(***************************************************************************)
MinAddressLines == 1
MaxAddressLines == 2
MinLineLen == 1
MaxLineLen == 70
MaxNameLen == 70
MaxCfLen == 16
MaxCucLen == 35
PstlCountryLen == 2
MaxPstlTownLen == 35
CountryLen == 2

(***************************************************************************)
(* Texts used as inputs: one inside and one outside each limit.            *)
(***************************************************************************)
Text71 == "Lorem ipsum dolor sit amet consectetur adipiscing elit sed do eiusmod t"
Text70 == "Lorem ipsum dolor sit amet consectetur adipiscing elit sed do eiusmod "
Text36 == "Castellammare di Stabia sul Mare 123"
Text17 == "RSSMRA80A01H501UX"

GoodText ==
  [name |-> "Mario Rossi", cf |-> "RSSMRA80A01H501U", code |-> "0123456",
   cuc |-> "CUC12345", country |-> "IT", pstl_town |-> "Milano",
   pstl_country |-> "FR", sia_code |-> "A1B2C"]

BadText ==
  [name |-> Text71, cf |-> Text17, cuc |-> Text36, country |-> "ITA",
   pstl_town |-> Text36, pstl_country |-> "F"]

\* the text attributes that instances are enumerated with (sia_code is accepted
\* by the constructor and read by no code of the module: it stays absent)
TextArgs == DOMAIN GoodText \ {"sia_code"}
CheckedArgs == DOMAIN BadText

\* the i-th line of an enumerated address, when it is a good one
GoodLine(i) == IF i = 1 THEN "Via Roma 1" ELSE IF i = 2 THEN Text70 ELSE "7"
BadLines == {"", Text71}

IsBadLine(l) == l \in BadLines

RECURSIVE CountBad(_)
CountBad(s) == IF s = <<>> THEN 0
               ELSE (IF IsBadLine(Head(s)) THEN 1 ELSE 0) + CountBad(Tail(s))

\* sequences of n lines: line i is GoodLine(i), but for the last line, which
\* may be a bad one
ItemsOfLen(n) ==
  {[i \in 1..n |-> IF i = n THEN l ELSE GoodLine(i)] : l \in {GoodLine(n)} \cup BadLines}

AddressItems == UNION {ItemsOfLen(n) : n \in 0..MaxLines}

\* the values given as the address argument: lists, a tuple, and a plain string
\* (iterating a string yields its characters)
AddressValues ==
  {[type |-> "list", items |-> s] : s \in AddressItems}
    \cup {[type |-> "tuple", items |-> <<GoodLine(1), GoodLine(2)>>],
          [type |-> "str", items |-> <<"V", "i", "a">>]}

Opt(S) == {<<>>} \cup {<<v>> : v \in S}

(***************************************************************************)
(* The tree-building primitive: an element has a tag, an optional text and *)
(* ordered children.                                                       *)
(***************************************************************************)
Element(tag, text, children) == [tag |-> tag, text |-> text, children |-> children]

\* the children of element e, in order, that carry tag t
ChildrenTagged(e, t) == SelectSeq(e.children, LAMBDA c : c.tag = t)

\* the tags of the children of e, in order
ChildTags(e) == [i \in 1..Len(e.children) |-> e.children[i].tag]

(***************************************************************************)
(* AttributeCarrier (util module): attribute presence and length checks.   *)
(***************************************************************************)
hasattr(obj, attr) == obj[attr] # <<>>

getattr(obj, attr) == obj[attr][1]

\* TRUE when the check passes
max_length(obj, attr, n) == Len(getattr(obj, attr)) <= n

\* TRUE when the check passes
length(obj, attr, n) == Len(getattr(obj, attr)) = n

(***************************************************************************)
(* class Address                                                           *)
(***************************************************************************)
Address(address, country, town) == [lines |-> address, country |-> country, town |-> town]

IsSequenceType(v) == v.type \in {"list", "tuple"}

\* a variant that forgets the lower bound on the number of lines
LineCountOkNoLowerBound(n) == ~(n > MaxAddressLines)

LineCountOk(n) == ~(n < MinAddressLines \/ n > MaxAddressLines)

LineLenOk(line) == ~(Len(line) < MinLineLen \/ Len(line) > MaxLineLen)

\* Address.perform_checks: the exception raised, "" when it returns
Address_perform_checks(a) ==
  IF a.lines # <<>>
  THEN LET lines == a.lines[1]
       IN IF ~IsSequenceType(lines) THEN "AddressFormatError"
          ELSE IF ~LineCountOk(Len(lines.items)) THEN "AddressFormatError"
          ELSE IF \E i \in 1..Len(lines.items) : ~LineLenOk(lines.items[i])
               THEN "AddressFormatError"
          ELSE ""
  ELSE ""

AdrLines(a) ==
  IF a.lines # <<>>
  THEN [i \in 1..Len(a.lines[1].items) |-> Element("AdrLine", <<a.lines[1].items[i]>>, <<>>)]
  ELSE <<>>

\* a variant that emits the country before the town
Address_emit_tagCountryFirst(a) ==
  Element("PstlAdr", <<>>,
          (IF a.country # <<>> THEN <<Element("Ctry", a.country, <<>>)>> ELSE <<>>)
          \o (IF a.town # <<>> THEN <<Element("TwnNm", a.town, <<>>)>> ELSE <<>>)
          \o AdrLines(a))

\* Address.emit_tag
Address_emit_tag(a) ==
  Element("PstlAdr", <<>>,
          (IF a.town # <<>> THEN <<Element("TwnNm", a.town, <<>>)>> ELSE <<>>)
          \o (IF a.country # <<>> THEN <<Element("Ctry", a.country, <<>>)>> ELSE <<>>)
          \o AdrLines(a))

\* AttributeCarrier.__tag__ as applied to the owned Address: its fragment
Address_tag(a) == Address_emit_tag(a)

(***************************************************************************)
(* emit_id_tag                                                             *)
(***************************************************************************)
emit_id_tag(id_code, id_type) ==
  Element("Othr", <<>>,
          <<Element("Id", <<id_code>>, <<>>)>>
          \o (IF id_type # <<>> THEN <<Element("Issr", id_type, <<>>)>> ELSE <<>>))

(***************************************************************************)
(* class IdHolder                                                          *)
(***************************************************************************)
\* IdHolder.__init__: the defaults, then one attribute per keyword argument
IdHolder(kwargs) ==
  [name |-> kwargs.name, cf |-> kwargs.cf, code |-> kwargs.code,
   private |-> IF kwargs.private # <<>> THEN kwargs.private[1] ELSE FALSE,
   cuc |-> kwargs.cuc, address |-> kwargs.address, country |-> kwargs.country,
   pstl_town |-> kwargs.pstl_town, pstl_country |-> kwargs.pstl_country,
   sia_code |-> kwargs.sia_code,
   pstl |-> <<>>]

\* a variant in which the assertion is not evaluated
CfExcludesCodeUnchecked(this) == TRUE

\* a variant that asserts the absence of the wrong attribute
CfExcludesCodeWrongAttr(this) == ~hasattr(this, "cuc")

\* assert not hasattr(self, 'code'), which runs when cf is present
CfExcludesCode(this) == ~hasattr(this, "code")

\* the checks of IdHolder.perform_checks in the order of the code; each is
\* <<whether it passes (a check of an absent attribute does not run), the
\* exception raised when it does not>>
IdHolderChecks(this) ==
  << <<hasattr(this, "name") => max_length(this, "name", MaxNameLen), "ConstraintViolation">>,
     <<hasattr(this, "cf") => CfExcludesCode(this), "AssertionError">>,
     <<hasattr(this, "cf") => max_length(this, "cf", MaxCfLen), "ConstraintViolation">>,
     <<hasattr(this, "cuc") => max_length(this, "cuc", MaxCucLen), "ConstraintViolation">>,
     <<hasattr(this, "pstl_country") => length(this, "pstl_country", PstlCountryLen),
       "ConstraintViolation">>,
     <<hasattr(this, "pstl_town") => max_length(this, "pstl_town", MaxPstlTownLen),
       "ConstraintViolation">>,
     <<hasattr(this, "country") => length(this, "country", CountryLen),
       "ConstraintViolation">> >>

\* the exception of the first check that does not pass, "" if all pass
FirstFailure(checks) ==
  LET failing == {i \in 1..Len(checks) : ~checks[i][1]}
  IN IF failing = {} THEN ""
     ELSE checks[CHOOSE i \in failing : \A j \in failing : i <= j][2]

\* the condition under which perform_checks builds the owned Address
BuildsPstl(this) == hasattr(this, "pstl_country") \/ hasattr(this, "pstl_country")

\* the Address that perform_checks builds
OwnedAddress(this) == Address(this.address, this.pstl_country, this.pstl_town)

\* IdHolder.perform_checks: the instance afterwards and the exception raised
\* ("" when it returns)
IdHolder_perform_checks(this) ==
  LET exc == FirstFailure(IdHolderChecks(this))
  IN IF exc # "" THEN [self |-> this, exc |-> exc]
     ELSE IF BuildsPstl(this)
          THEN [self |-> [this EXCEPT !.pstl = <<OwnedAddress(this)>>], exc |-> ""]
          ELSE [self |-> this, exc |-> ""]

\* the tag of the root element
RootTag(tag, as_initiator) == IF as_initiator THEN <<"InitgPty">> ELSE tag

\* # Name
NameChildren(this) ==
  IF hasattr(this, "name") THEN <<Element("Nm", this.name, <<>>)>> ELSE <<>>

\* a variant that emits the address in either role
AddressChildrenAnyRole(this, as_initiator) ==
  IF this.pstl # <<>> THEN <<Address_tag(this.pstl[1])>> ELSE <<>>

\* # Address
AddressChildren(this, as_initiator) ==
  IF this.pstl # <<>> /\ ~as_initiator THEN <<Address_tag(this.pstl[1])>> ELSE <<>>

\* the tag of the identification container
IdContainer(this) == IF this.private THEN "PrvtId" ELSE "OrgId"

\* a variant in which hide alone does not ask for the CUC
CucRequiredInitiatorOnly(as_initiator, hide) == as_initiator

\* # CUC: whether the CUC is emitted (and required)
CucRequired(as_initiator, hide) == as_initiator \/ hide

CucChildren(this, as_initiator, hide) ==
  IF CucRequired(as_initiator, hide) THEN <<emit_id_tag(getattr(this, "cuc"), <<"CBI">>)>>
  ELSE <<>>

\* a variant that emits the tax code whatever hide is
TaxCodeChildrenIgnoringHide(this, hide) ==
  IF hasattr(this, "cf") THEN <<emit_id_tag(getattr(this, "cf"), <<"ADE">>)>> ELSE <<>>

\* # Tax code
TaxCodeChildren(this, hide) ==
  IF ~hide /\ hasattr(this, "cf") THEN <<emit_id_tag(getattr(this, "cf"), <<"ADE">>)>>
  ELSE <<>>

\* the generic code
CodeChildren(this) ==
  IF hasattr(this, "code") THEN <<emit_id_tag(getattr(this, "code"), <<>>)>> ELSE <<>>

\* the country of residence
CtryOfResChildren(this, as_initiator) ==
  IF ~as_initiator /\ hasattr(this, "country")
  THEN <<Element("CtryOfRes", this.country, <<>>)>> ELSE <<>>

\* a variant in which hiding the tax code removes it from the instance
SelfAfterEmitHideDropsCf(this, as_initiator, hide) ==
  IF hide THEN [this EXCEPT !.cf = <<>>] ELSE this

\* the instance as emit_tag leaves it: no statement of emit_tag assigns to an
\* attribute of self or of the owned Address
SelfAfterEmit(this, as_initiator, hide) == this

\* what a call leaves: the instance, the exception raised ("" when it returns)
\* and the value returned
Outcome(this, exc, ret) == [self |-> this, exc |-> exc, ret |-> ret]

\* IdHolder.emit_tag; tag is <<>> when the caller gives none (etree.Element
\* rejects a tag of None with a TypeError)
IdHolder_emit_tag(this, tag, as_initiator, hide) ==
  LET after == SelfAfterEmit(this, as_initiator, hide)
  IN IF RootTag(tag, as_initiator) = <<>> THEN Outcome(after, "TypeError", <<>>)
     ELSE IF CucRequired(as_initiator, hide) /\ ~hasattr(this, "cuc")
          THEN Outcome(after, "MissingCUCError", <<>>)
     ELSE Outcome(after, "",
            <<Element(RootTag(tag, as_initiator)[1], <<>>,
                NameChildren(this)
                \o AddressChildren(this, as_initiator)
                \o <<Element("Id", <<>>,
                       <<Element(IdContainer(this), <<>>,
                           CucChildren(this, as_initiator, hide)
                           \o TaxCodeChildren(this, hide)
                           \o CodeChildren(this))>>)>>
                \o CtryOfResChildren(this, as_initiator))>>)

(***************************************************************************)
(* The state machine.  self is the IdHolder under consideration, adr a     *)
(* standalone Address (<<>> when there is none), checked whether           *)
(* perform_checks has returned on self, snapshot the instance as           *)
(* construction or the last perform_checks left it, last the last call     *)
(* and its outcome.                                                        *)
(***************************************************************************)
Call(op, tag, as_initiator, hide, exc, ret) ==
  [op |-> op, tag |-> tag, as_initiator |-> as_initiator, hide |-> hide,
   exc |-> exc, ret |-> ret]

NoCall == Call("__init__", <<>>, FALSE, FALSE, "", <<>>)

\* the text arguments of a constructor call: those in present are given, those
\* in bad with a text outside the limit of the attribute
TextKwargs(present, bad) ==
  [a \in DOMAIN GoodText |-> IF a \notin present THEN <<>>
                      ELSE IF a \in bad THEN <<BadText[a]>> ELSE <<GoodText[a]>>]

Kwargs(present, bad, private, address) ==
  LET t == TextKwargs(present, bad)
  IN [name |-> t.name, cf |-> t.cf, code |-> t.code, private |-> private,
      cuc |-> t.cuc, address |-> address, country |-> t.country,
      pstl_town |-> t.pstl_town, pstl_country |-> t.pstl_country,
      sia_code |-> t.sia_code]

BadInAddress(address) == IF address = <<>> THEN 0 ELSE CountBad(address[1].items)

\* the tags a caller passes: none, or a party tag
Tags == {<<>>, <<"Dbtr">>}

Init ==
  /\ \E present \in SUBSET TextArgs, private \in Opt(BOOLEAN),
        address \in Opt(AddressValues) :
       \E bad \in SUBSET (present \cap CheckedArgs) :
         /\ Cardinality(bad) + BadInAddress(address) <= MaxBad
         /\ self = IdHolder(Kwargs(present, bad, private, address))
  /\ adr = <<>>
  /\ checked = FALSE
  /\ snapshot = self
  /\ last = NoCall

\* holder.perform_checks()
PerformChecks ==
  LET r == IdHolder_perform_checks(self)
  IN /\ self' = r.self
     /\ checked' = (checked \/ r.exc = "")
     /\ snapshot' = r.self
     /\ last' = Call("perform_checks", <<>>, FALSE, FALSE, r.exc, <<>>)
     /\ UNCHANGED adr

\* holder.emit_tag(tag, as_initiator, hide)
EmitTag ==
  \E tag \in Tags, as_initiator \in BOOLEAN, hide \in BOOLEAN :
    LET r == IdHolder_emit_tag(self, tag, as_initiator, hide)
    IN /\ self' = r.self
       /\ last' = Call("emit_tag", tag, as_initiator, hide, r.exc, r.ret)
       /\ UNCHANGED <<adr, checked, snapshot>>

Next == PerformChecks \/ EmitTag

Spec == Init /\ [][Next]_vars

(***************************************************************************)
(* A standalone Address: Address(lines, country, town) built by a caller,  *)
(* then validated and emitted.                                             *)
(***************************************************************************)
LineTexts == {"", "V", "Via Roma 1", Text70, Text71}

\* every list and tuple of up to MaxLines of the texts, and plain strings
StandaloneLines ==
  {[type |-> t, items |-> s] :
     t \in {"list", "tuple"}, s \in UNION {[1..n -> LineTexts] : n \in 0..MaxLines}}
    \cup {[type |-> "str", items |-> <<"V">>], [type |-> "str", items |-> <<"V", "i", "a">>]}

\* IdHolder() with no keyword argument
BareIdHolder == IdHolder(Kwargs({}, {}, <<>>, <<>>))

InitAddress ==
  /\ self = BareIdHolder
  /\ \E lines \in Opt(StandaloneLines), country \in Opt({"IT"}), town \in Opt({"Milano"}) :
       adr = <<Address(lines, country, town)>>
  /\ checked = FALSE
  /\ snapshot = self
  /\ last = NoCall

\* address.perform_checks()
AddressPerformChecks ==
  /\ adr # <<>>
  /\ last' = Call("Address.perform_checks", <<>>, FALSE, FALSE,
                  Address_perform_checks(adr[1]), <<>>)
  /\ UNCHANGED <<self, adr, checked, snapshot>>

\* address.emit_tag()
AddressEmitTag ==
  /\ adr # <<>>
  /\ last' = Call("Address.emit_tag", <<>>, FALSE, FALSE, "", <<Address_emit_tag(adr[1])>>)
  /\ UNCHANGED <<self, adr, checked, snapshot>>

NextAddress == AddressPerformChecks \/ AddressEmitTag

SpecAddress == InitAddress /\ [][NextAddress]_vars

(***************************************************************************)
(* Reading the outcome of the last call.                                   *)
(***************************************************************************)
Emitted == last.op = "emit_tag"

Returned == Emitted /\ last.exc = "" /\ last.ret # <<>>

Tree == last.ret[1]

\* the caller kept the contract on tag: one is given unless acting as initiator
TagGiven == last.as_initiator \/ last.tag # <<>>

\* the identification container of a returned tree and its Othr fragments
IdBlock(t) == ChildrenTagged(t, "Id")[1]

IdContainerOf(t) == IdBlock(t).children[1]

Othrs(t) == IdContainerOf(t).children

\* the issuer of an Othr fragment, <<>> when it has no Issr child
IssuerOf(o) ==
  LET issr == ChildrenTagged(o, "Issr") IN IF issr = <<>> THEN <<>> ELSE issr[1].text

HasIssuer(t, issuer) == \E i \in 1..Len(Othrs(t)) : IssuerOf(Othrs(t)[i]) = issuer

AnyPostalInput(this) ==
  hasattr(this, "address") \/ hasattr(this, "pstl_town") \/ hasattr(this, "pstl_country")

(***************************************************************************)
(* C1.  An IdHolder without cuc: emit_tag as initiator fails with          *)
(* MissingCUCError, emit_tag with hide fails with MissingCUCError, and     *)
(* emit_tag with neither returns a tree without a fragment issued by       *)
(* "CBI" (the caller giving a tag unless acting as initiator).             *)
(***************************************************************************)
C1_MissingCuc ==
  (Emitted /\ TagGiven /\ ~hasattr(self, "cuc")) =>
    IF last.as_initiator \/ last.hide
    THEN last.exc = "MissingCUCError" /\ last.ret = <<>>
    ELSE Returned /\ ~HasIssuer(Tree, <<"CBI">>)

C1_Witness ==
  /\ Emitted /\ ~hasattr(self, "cuc")
  /\ last.hide /\ ~last.as_initiator /\ last.tag # <<>>
  /\ last.exc = "MissingCUCError"
  /\ self.pstl # <<>> /\ hasattr(self, "cf") /\ hasattr(self, "name")

(***************************************************************************)
(* C2.  After perform_checks returns, pstl is the Address built from       *)
(* (address, pstl_country, pstl_town) when at least one of the three       *)
(* postal inputs was given, and unset when none was.                       *)
(***************************************************************************)
C2_PstlFromAnyPostalInput ==
  (last.op = "perform_checks" /\ last.exc = "") =>
    self.pstl = IF AnyPostalInput(self)
                THEN <<[lines |-> self.address, country |-> self.pstl_country,
                        town |-> self.pstl_town]>>
                ELSE <<>>

(***************************************************************************)
(* C3.  perform_checks of an IdHolder with postal fields whose address     *)
(* breaks an Address constraint (not a list or tuple, no line or more      *)
(* than two, a line of length outside 1..70) fails with                    *)
(* AddressFormatError.                                                     *)
(***************************************************************************)
AddressBreaksConstraint(v) ==
  \/ v.type \notin {"list", "tuple"}
  \/ Len(v.items) = 0
  \/ Len(v.items) > 2
  \/ \E i \in 1..Len(v.items) : Len(v.items[i]) < 1 \/ Len(v.items[i]) > 70

\* stated for the instances whose pstl_country is given, for which
\* perform_checks does build the Address
C3_AddressErrorsPropagate ==
  (/\ last.op = "perform_checks"
   /\ hasattr(self, "pstl_country")
   /\ hasattr(self, "address")
   /\ AddressBreaksConstraint(self.address[1]))
    => last.exc # ""

(***************************************************************************)
(* C4.  perform_checks of an IdHolder that has both cf and code never      *)
(* returns: it raises, and the instance is never a validated one.          *)
(***************************************************************************)
C4_CfCodeExclusive ==
  (hasattr(self, "cf") /\ hasattr(self, "code")) =>
    /\ ~checked
    /\ last.op = "perform_checks" => last.exc # ""

C4_Witness ==
  /\ last.op = "perform_checks"
  /\ hasattr(self, "cf") /\ hasattr(self, "code")
  /\ last.exc = "AssertionError"

(***************************************************************************)
(* C5.  Role exclusivity.  A tree returned by emit_tag as initiator (any   *)
(* hide, any tag given) is rooted at InitgPty and has neither a PstlAdr    *)
(* nor a CtryOfRes child; a tree returned by emit_tag not as initiator     *)
(* has a PstlAdr child whenever pstl is set and a CtryOfRes child          *)
(* whenever country is set.                                                *)
(***************************************************************************)
C5_RoleExclusivity ==
  Returned =>
    IF last.as_initiator
    THEN /\ Tree.tag = "InitgPty"
         /\ ChildrenTagged(Tree, "PstlAdr") = <<>>
         /\ ChildrenTagged(Tree, "CtryOfRes") = <<>>
    ELSE /\ Tree.tag = last.tag[1]
         /\ self.pstl # <<>> => Len(ChildrenTagged(Tree, "PstlAdr")) = 1
         /\ hasattr(self, "country") =>
              /\ Len(ChildrenTagged(Tree, "CtryOfRes")) = 1
              /\ ChildrenTagged(Tree, "CtryOfRes")[1].text = self.country

C5_Witness ==
  /\ Returned /\ last.as_initiator /\ last.tag # <<>>
  /\ self.pstl # <<>> /\ hasattr(self, "name") /\ hasattr(self, "country")
  /\ Tree.tag = "InitgPty"

C7_AddressChecks ==
  (last.op = "Address.perform_checks") =>
    LET a == adr[1]
        fine == \/ a.lines = <<>>
                \/ /\ a.lines[1].type \in {"list", "tuple"}
                   /\ Len(a.lines[1].items) \in {1, 2}
                   /\ \A i \in 1..Len(a.lines[1].items) :
                        Len(a.lines[1].items[i]) \in 1..70
    IN last.exc = IF fine THEN "" ELSE "AddressFormatError"

C7_Witness ==
  /\ last.op = "Address.perform_checks"
  /\ adr[1].lines # <<>> /\ adr[1].lines[1].type = "list"
  /\ adr[1].lines[1].items = <<"Via Roma 1", Text71>>
  /\ adr[1].town # <<>> /\ adr[1].country = <<>>
  /\ last.exc = "AddressFormatError"

(***************************************************************************)
(* C8.  For a validated IdHolder with pstl set, the tree returned by       *)
(* emit_tag(tag) not as initiator has the children Nm (if name), the       *)
(* address fragment, Id, CtryOfRes (if country), in this order; the        *)
(* fragment is rooted at PstlAdr and its children are TwnNm (if town),     *)
(* Ctry (if country), then one AdrLine per line in the order of the lines. *)
(***************************************************************************)
C8_AddressFragment ==
  (Returned /\ checked /\ ~last.as_initiator /\ self.pstl # <<>>) =>
    LET a == self.pstl[1]
        frag == ChildrenTagged(Tree, "PstlAdr")[1]
        n == IF a.lines = <<>> THEN 0 ELSE Len(a.lines[1].items)
        head == (IF a.town # <<>> THEN <<[tag |-> "TwnNm", text |-> a.town]>> ELSE <<>>)
                \o (IF a.country # <<>> THEN <<[tag |-> "Ctry", text |-> a.country]>>
                    ELSE <<>>)
    IN /\ ChildTags(Tree) =
            (IF hasattr(self, "name") THEN <<"Nm">> ELSE <<>>)
            \o <<"PstlAdr", "Id">>
            \o (IF hasattr(self, "country") THEN <<"CtryOfRes">> ELSE <<>>)
       /\ frag.tag = "PstlAdr" /\ frag.text = <<>>
       /\ Len(frag.children) = Len(head) + n
       /\ \A i \in 1..Len(head) :
            /\ frag.children[i].tag = head[i].tag
            /\ frag.children[i].text = head[i].text
            /\ frag.children[i].children = <<>>
       /\ \A i \in 1..n :
            /\ frag.children[Len(head) + i].tag = "AdrLine"
            /\ frag.children[Len(head) + i].text = <<a.lines[1].items[i]>>
            /\ frag.children[Len(head) + i].children = <<>>

C8_Witness ==
  /\ Returned /\ checked /\ ~last.as_initiator /\ self.pstl # <<>>
  /\ hasattr(self, "name") /\ hasattr(self, "country")
  /\ self.pstl[1].town = <<"Milano">> /\ self.pstl[1].country = <<"FR">>
  /\ self.pstl[1].lines # <<>>
  /\ self.pstl[1].lines[1].items = <<"Via Roma 1", Text70>>
  /\ ChildTags(Tree) = <<"Nm", "PstlAdr", "Id", "CtryOfRes">>

(***************************************************************************)
(* C9.  Every tree returned by emit_tag has one Id child holding one       *)
(* container, PrvtId when private and OrgId otherwise, whose children are  *)
(* exactly, in this order: the CUC issued by "CBI" iff as_initiator or     *)
(* hide; cf issued by "ADE" iff not hide and cf is present; code without   *)
(* Issr iff code is present.                                               *)
(***************************************************************************)
ExpectedIds ==
  (IF last.as_initiator \/ last.hide THEN <<[id |-> self.cuc, issr |-> <<"CBI">>]>> ELSE <<>>)
  \o (IF ~last.hide /\ self.cf # <<>> THEN <<[id |-> self.cf, issr |-> <<"ADE">>]>> ELSE <<>>)
  \o (IF self.code # <<>> THEN <<[id |-> self.code, issr |-> <<>>]>> ELSE <<>>)

C9_IdBlock ==
  Returned =>
    /\ Len(ChildrenTagged(Tree, "Id")) = 1
    /\ Len(IdBlock(Tree).children) = 1
    /\ IdContainerOf(Tree).tag = IF self.private THEN "PrvtId" ELSE "OrgId"
    /\ Len(Othrs(Tree)) = Len(ExpectedIds)
    /\ \A i \in 1..Len(ExpectedIds) :
         LET o == Othrs(Tree)[i]
         IN /\ o.tag = "Othr"
            /\ ChildTags(o) = <<"Id">> \o (IF ExpectedIds[i].issr # <<>> THEN <<"Issr">>
                                           ELSE <<>>)
            /\ o.children[1].text = ExpectedIds[i].id
            /\ IssuerOf(o) = ExpectedIds[i].issr

C9_Witness ==
  /\ Returned /\ last.hide /\ ~last.as_initiator
  /\ hasattr(self, "cf") /\ hasattr(self, "cuc") /\ self.private
  /\ Len(Othrs(Tree)) = 1

(***************************************************************************)
(* C10.  On an IdHolder on which perform_checks has returned, every tree   *)
(* returned by emit_tag has at most two Othr fragments and never both one  *)
(* issued by "ADE" and one without issuer; a tree with three Othr          *)
(* fragments comes only from an instance that was never validated.         *)
(***************************************************************************)
C10_AtMostTwoIds ==
  Returned =>
    /\ Len(Othrs(Tree)) <= 3
    /\ checked =>
         /\ Len(Othrs(Tree)) <= 2
         /\ ~(HasIssuer(Tree, <<"ADE">>) /\ HasIssuer(Tree, <<>>))
    /\ Len(Othrs(Tree)) = 3 => ~checked

C10_Witness ==
  /\ Returned /\ checked
  /\ Len(Othrs(Tree)) = 2
  /\ HasIssuer(Tree, <<"CBI">>) /\ HasIssuer(Tree, <<"ADE">>)

\* three Othr fragments do occur, on an instance that is not validated
C10_ThreeIdsUnvalidated == Returned /\ ~checked /\ Len(Othrs(Tree)) = 3

====
